---- MODULE Spec2Model ----
(***************************************************************************)
(* The request handlers of the ProDesign Fit orchestrator:                 *)
(*   A21  POST /analyze  2.1-ultrafast         src/server.js 101-291       *)
(*   A23  POST /analyze  2.3-superfast         src/server.js 483-684       *)
(*   A22  POST /analyze  2.2-with-screenshots  src/unnamed/part_002        *)
(*   A1   POST /analyze  first crawl variant   src/unnamed/part_001        *)
(*   R2   POST /review   src/server.js 296-337, src/unnamed/part_002       *)
(*   R1   POST /review   first variant         src/unnamed/part_001        *)
(* A handler runs on the single-threaded event loop: the code between two  *)
(* awaits is atomic, so one action is the completion (fulfilled or         *)
(* rejected) of one awaited call followed by the synchronous code up to    *)
(* the next await.  The browser, the object store, the audit store and the *)
(* scoring endpoint are the environment: each awaited call draws its       *)
(* outcome nondeterministically.                                           *)
(***************************************************************************)
EXTENDS Integers, Sequences, FiniteSets, TLC

VARIABLES
    req,      \* per request: position, locals, responses sent, timer, counters
    clock,    \* the value Date.now() returns
    disk,     \* names of the local files that exist
    bucket,   \* names of the objects in the storage bucket
    rows,     \* rows of portfolio_reviews
    apiKey    \* process.env.OPENAI_API_KEY is set

vars == <<req, clock, disk, bucket, rows, apiKey>>

\* Bounds of the model.
NumReq == 2
MaxClock == 1

Req == 1..NumReq

(***************************************************************************)
(* JavaScript values.                                                      *)
(***************************************************************************)
Num(n) == [t |-> "number", v |-> n]
Undefined == [t |-> "undefined", v |-> 0]
IsNum(x) == x.t = "number"

\* x || d on a number-or-undefined value: 0 and undefined are falsy.
OrElse(x, d) == IF x.t = "number" /\ x.v # 0 THEN x ELSE d

ScoresOf(a, b, c, d) ==
    [t |-> "object", uxThinking |-> Num(a), clarity |-> Num(b),
     storytelling |-> Num(c), professionalism |-> Num(d)]
NoScores ==
    [t |-> "undefined", uxThinking |-> Undefined, clarity |-> Undefined,
     storytelling |-> Undefined, professionalism |-> Undefined]

\* The request bodies' url: absent, empty, or a portfolio address.
Urls == {"undefined", "", "https://p.example"}
Falsy(u) == u \in {"undefined", ""}

\* File and object names: prefix, index, the clock value, the random suffix.
Name(prefix, idx, t, rnd) == [prefix |-> prefix, idx |-> idx, t |-> t, rnd |-> rnd]
NoFile == Name("", 0, 0, 0)
NullUrl == [null |-> TRUE, of |-> NoFile]
PublicUrl(n) == [null |-> FALSE, of |-> n]

(***************************************************************************)
(* Responses.  A body carries the fields the claims read; a field a body   *)
(* does not have is Undefined (or the empty sequence).                     *)
(***************************************************************************)
Shots(u) == [desktopFull |-> u, desktopFold |-> u, mobileFull |-> u]

\* The names of the fields a report defines: in data, in a caseStudies entry
\* and in a section of an entry (written out for the 2.3 reports).
Keys(data, entry, section) == [data |-> data, entry |-> entry, section |-> section]
NoKeys == Keys({}, {}, {})

CaseStudy(title, score, scores, shots) ==
    [title |-> title, score |-> score, scores |-> scores, screenshots |-> shots]

\* {success: false, error, details}: no report field at all.
ErrorBody(src) ==
    [type |-> "error", success |-> "false", src |-> src,
     overallScore |-> Undefined, scores |-> NoScores, caseStudies |-> <<>>,
     interviewReadiness |-> "undefined", screenshot_url |-> NullUrl,
     keys |-> NoKeys]

ReportBody(src, overall, scores, readiness, caseStudies) ==
    [type |-> "report", success |-> "true", src |-> src,
     overallScore |-> overall, scores |-> scores, caseStudies |-> caseStudies,
     interviewReadiness |-> readiness, screenshot_url |-> NullUrl,
     keys |-> NoKeys]

\* {error} of the first handlers: no success field either.
PlainError(src) == [ErrorBody(src) EXCEPT !.success = "undefined"]

\* {success: true, screenshot_url} of /review.
ReviewBody(u) ==
    [type |-> "review", success |-> "true", src |-> "pipeline",
     overallScore |-> Undefined, scores |-> NoScores, caseStudies |-> <<>>,
     interviewReadiness |-> "undefined", screenshot_url |-> u,
     keys |-> NoKeys]

\* {ok: true, portfolio, caseStudies} of the first /analyze.
CrawlBody(results) ==
    [type |-> "crawl", success |-> "undefined", src |-> "pipeline",
     overallScore |-> Undefined, scores |-> NoScores, caseStudies |-> results,
     interviewReadiness |-> "undefined", screenshot_url |-> NullUrl,
     keys |-> NoKeys]

Response(status, body) == [status |-> status, body |-> body]

HeadersSent(s) == Len(s.sent) > 0
Send(s, status, body) == [s EXCEPT !.sent = Append(@, Response(status, body))]

(***************************************************************************)
(* What the scoring endpoint's answer parses to: a full rating, a rating   *)
(* out of the documented range, an object without the fields, and null.    *)
(***************************************************************************)
Ai(t, overall, scores, summary, readiness) ==
    [t |-> t, overallScore |-> overall, scores |-> scores,
     summary |-> summary, interviewReadiness |-> readiness]
AiNull == Ai("null", Undefined, NoScores, FALSE, "undefined")
Parsed ==
    { Ai("object", Num(82), ScoresOf(80, 85, 78, 88), TRUE, "Ready for interviews"),
      Ai("object", Num(0), ScoresOf(0, 101, -5, 50), TRUE, "Almost ready"),
      Ai("object", Num(101), ScoresOf(-5, 100, 0, 50), TRUE, "Needs more work"),
      Ai("object", Undefined, NoScores, FALSE, "undefined"),
      AiNull }

\* The classes of scoring failure (spec 4.3, 7(4)).
ScoringFailures == {"nokey", "abort", "non2xx", "malformed"}

(***************************************************************************)
(* A request: its position, the handler's locals, and what it has done.    *)
(***************************************************************************)
NewReq(present) ==
    [kind |-> "none", pc |-> IF present THEN "idle" ELSE "absent",
     url |-> "undefined", timer |-> "unset", sent |-> <<>>,
     browser |-> FALSE, open |-> 0,
     launches |-> 0, storage |-> 0, scorer |-> 0, scoring |-> "none",
     abortTimer |-> "unset", prompt |-> "none",
     loads |-> <<>>, loadSuccess |-> FALSE, content |-> "", pageTitle |-> "Portfolio",
     anchors |-> <<>>, links |-> <<>>, shot |-> NullUrl, ai |-> AiNull, i |-> 0,
     file |-> NoFile, file2 |-> NoFile, made |-> <<>>, cs |-> <<>>,
     uploaded |-> FALSE, failed |-> {}, threw |-> FALSE, unhandled |-> FALSE]

\* Date.now(): a value no smaller than the one it returned last.
Now == clock..MaxClock

Set(r, s) == req' = [req EXCEPT ![r] = s]
At(r, kind, pc) == req[r].kind = kind /\ req[r].pc = pc

(***************************************************************************)
(* Links.  A string is a sequence of pieces; Has(piece) is the set of the  *)
(* keywords the piece contains as written, and Lower the piece lowercased. *)
(***************************************************************************)
Lower(piece) ==
    CASE piece = "Case" -> "case"
      [] piece = "Work" -> "work"
      [] piece = "Portfolio" -> "portfolio"
      [] piece = "View " -> "view "
      [] piece = "About us" -> "about us"
      [] OTHER -> piece

Has(piece) ==
    CASE piece = "case" -> {"case"}
      [] piece = "showcase" -> {"case"}
      [] piece = "work" -> {"work"}
      [] piece = "project" -> {"project"}
      [] piece = "portfolio" -> {"portfolio"}
      [] OTHER -> {}

ToLowerCase(str) == [i \in 1..Len(str) |-> Lower(str[i])]
Includes(str, kw) == \E i \in 1..Len(str) : kw \in Has(str[i])

Link(href, text) == [href |-> href, text |-> text]

\* The pages a request may load: title, visible text, anchors in document order.
Page(title, text, anchors) == [title |-> title, text |-> text, anchors |-> anchors]
Pages ==
    LET LCase == Link(<<"https://x.com/", "case", "-study-1">>, <<"View ", "project">>)
        LAbout == Link(<<"https://x.com/", "about">>, <<"About us">>)
        LUpper == Link(<<"https://x.com/", "p1">>, <<"Case", " Study">>)
        LWork == Link(<<"https://x.com/", "work">>, <<"Work">>)
        LFolio == Link(<<"https://x.com/", "portfolio">>, <<"Portfolio">>)
        LIcon == Link(<<"https://x.com/", "project", "-2">>, <<>>)
        LMore == Link(<<"https://x.com/", "project", "-3">>, <<"Third">>)
        LBad == Link(<<"http://">>, <<"showcase">>)
    IN  { Page("", "", <<>>),
          Page("Jane Doe", "text", <<LAbout, LFolio>>),
          Page("Jane Doe", "text", <<LAbout, LCase, LUpper>>),
          Page("", "text", <<LIcon, LWork, LAbout, LCase, LUpper, LFolio, LMore>>),
          Page("Jane Doe", "", <<LBad>>) }

\* new URL(href) throws on an href the page could not resolve.
URLThrows(href) == href = <<"http://">>

TakeLast(seq, n) == SubSeq(seq, IF Len(seq) < n THEN 1 ELSE Len(seq) - n + 1, Len(seq))
Take(seq, n) == SubSeq(seq, 1, IF Len(seq) < n THEN Len(seq) ELSE n)

\* .filter(l => l.href && l.text)
WithText(links) == SelectSeq(links, LAMBDA l : Len(l.href) > 0 /\ Len(l.text) > 0)

MatchesPortfolio(l) ==
    LET lower == ToLowerCase(l.href \o <<" ">> \o l.text)
    IN  \E kw \in {"case", "work", "project", "portfolio"} : Includes(lower, kw)

\* (l.href + ' ' + l.text).toLowerCase() includes case, work or project.
Matches(l) ==
    LET lower == ToLowerCase(l.href \o <<" ">> \o l.text)
    IN  Includes(lower, "case") \/ Includes(lower, "work") \/ Includes(lower, "project")

Cap21 == 3
CaseStudyLinks21(anchors) == Take(SelectSeq(WithText(anchors), Matches), Cap21)

ClearTimeout(s) == [s EXCEPT !.timer = IF @ = "armed" THEN "cleared" ELSE @]
Done(s) == [s EXCEPT !.pc = "done"]

(***************************************************************************)
(* A23: POST /analyze, 2.3-superfast.                                      *)
(***************************************************************************)
DefaultScores23 == ScoresOf(75, 72, 70, 78)

\* The report the 25 s timer sends.
DefaultReport23 ==
    [ReportBody("deadline", Num(75), DefaultScores23, "Needs review",
        << CaseStudy(<<"Portfolio Overview">>, Num(75), DefaultScores23, Shots(NullUrl)) >>)
     EXCEPT !.keys = Keys(
        {"portfolioUrl", "analyzedAt", "analysisVersion", "overallScore", "scores",
         "summary", "strengths", "weaknesses", "interviewReadiness", "caseStudies",
         "topRecommendations"},
        {"url", "title", "score", "scores", "screenshots", "sections", "summary",
         "strengths", "recommendations"},
        {"type", "name", "aiReview", "score"})]

\* fastAIAnalysis: the return without a key, and the fallback after a failure.
FallbackNoKey23 == Ai("object", Num(75), DefaultScores23, FALSE, "undefined")
Fallback23 == Ai("object", Num(75), DefaultScores23, TRUE, "undefined")

\* A timer callback that only records that it ran.
OnDeadline23Silent(s) == [s EXCEPT !.timer = "fired"]

\* The timer's callback.
OnDeadline23(s) ==
    LET s1 == [s EXCEPT !.timer = "fired"]
    IN  IF ~HeadersSent(s1) THEN Send(s1, 200, DefaultReport23) ELSE s1

\* A catch block that answers 500 without looking at res.headersSent.
CatchTail23Unguarded(s) == Done(Send(s, 500, ErrorBody("catch")))

\* The end of the catch block, after the browser was dealt with.
CatchTail23(s) ==
    IF ~HeadersSent(s) THEN Done(Send(s, 500, ErrorBody("catch"))) ELSE Done(s)

\* The catch block up to its await.
Catch23(s) ==
    LET s1 == ClearTimeout([s EXCEPT !.threw = TRUE])
    IN  IF s1.browser THEN [s1 EXCEPT !.pc = "c_close"] ELSE CatchTail23(s1)

\* The fields of the report of step 7: res.json leaves out a field whose
\* value is undefined.
ReportKeys23(ai) ==
    LET absent == (IF IsNum(ai.overallScore) THEN {} ELSE {"overallScore", "score"})
                    \cup (IF ai.scores.t = "object" THEN {} ELSE {"scores"})
    IN  Keys(
        {"portfolioUrl", "analyzedAt", "analysisVersion", "overallScore", "scores",
         "summary", "strengths", "weaknesses", "interviewReadiness",
         "standoutFeature", "caseStudies", "topRecommendations"} \ absent,
        {"url", "title", "wordCount", "score", "scores", "screenshots", "sections",
         "summary", "strengths", "recommendations"} \ absent,
        {"type", "name", "aiReview", "score", "suggestions"})

Report23(s) ==
    [ReportBody("pipeline", s.ai.overallScore, s.ai.scores, "Needs detailed review",
        << CaseStudy(<<s.pageTitle>>, s.ai.overallScore, s.ai.scores, Shots(s.shot)) >>)
     EXCEPT !.keys = ReportKeys23(s.ai)]

\* A step 7 that sends the report without looking at res.headersSent.
Build23Unguarded(s) ==
    LET s1 == ClearTimeout(s)
    IN  IF s1.ai.t = "null" THEN Catch23(s1)
        ELSE Done(Send(s1, 200, Report23(s1)))

\* Step 7: clearTimeout, then the report unless a response was sent.  Reading
\* a property of a null aiResult throws a TypeError into the catch block.
Build23(s) ==
    LET s1 == ClearTimeout(s)
    IN  IF HeadersSent(s1) THEN Done(s1)
        ELSE IF s1.ai.t = "null" THEN Catch23(s1)
        ELSE Done(Send(s1, 200, Report23(s1)))

\* The handler up to its first await.
A23_Receive(r) ==
    LET Entry23(s, u) ==
            LET s1 == [s EXCEPT !.kind = "A23", !.url = u, !.timer = "armed"]
            IN  IF Falsy(u)
                THEN Done(Send(ClearTimeout(s1), 400, ErrorBody("check")))
                ELSE [s1 EXCEPT !.pc = "launch", !.launches = @ + 1]
    IN  /\ req[r].pc = "idle"
        /\ \E u \in Urls : Set(r, Entry23(req[r], u))
        /\ UNCHANGED <<clock, disk, bucket, rows, apiKey>>

A23_Deadline(r) ==
    /\ req[r].kind = "A23"
    /\ req[r].timer = "armed"
    /\ Set(r, OnDeadline23(req[r]))
    /\ UNCHANGED <<clock, disk, bucket, rows, apiKey>>

A23_Launch(r) ==
    LET Launch23(s, ok) ==
            IF ok THEN [s EXCEPT !.browser = TRUE, !.open = 1, !.pc = "newPage"]
            ELSE Catch23(s)
    IN  /\ At(r, "A23", "launch")
        /\ \E ok \in BOOLEAN : Set(r, Launch23(req[r], ok))
        /\ UNCHANGED <<clock, disk, bucket, rows, apiKey>>

\* newPage, setRequestInterception, setViewport; then page.goto is called.
A23_NewPage(r) ==
    LET NewPage23(s, ok) ==
            IF ok THEN [s EXCEPT !.pc = "goto", !.loadSuccess = FALSE, !.content = "",
                                 !.pageTitle = "Portfolio"]
            ELSE Catch23(s)
    IN  /\ At(r, "A23", "newPage")
        /\ \E ok \in BOOLEAN : Set(r, NewPage23(req[r], ok))
        /\ UNCHANGED <<clock, disk, bucket, rows, apiKey>>

\* Step 2: a failed load is logged; steps 3 and 4 are skipped and the
\* browser is closed.
Goto23(s, ok) ==
    LET s1 == [s EXCEPT !.loads = Append(@, [waitUntil |-> "domcontentloaded", ok |-> ok])]
    IN  IF ok THEN [s1 EXCEPT !.loadSuccess = TRUE, !.pc = "extract"]
        ELSE [s1 EXCEPT !.pc = "close"]

A23_Goto(r) ==
    /\ At(r, "A23", "goto")
    /\ \E ok \in BOOLEAN : Set(r, Goto23(req[r], ok))
    /\ UNCHANGED <<clock, disk, bucket, rows, apiKey>>

ExtractOutcomes == {"ok", "evaluateThrows", "titleThrows"}

\* Step 3, then takeQuickScreenshot up to its page.screenshot.
Extract23(s, o, page, now) ==
    LET f == Name("portfolio", 0, now, 0)
    IN  [s EXCEPT !.content = IF o = "evaluateThrows" THEN @ ELSE page.text,
                  !.pageTitle = IF o = "ok" /\ page.title # "" THEN page.title
                                ELSE "Portfolio",
                  !.file = f, !.made = Append(@, f), !.pc = "shot"]

A23_Extract(r) ==
    /\ At(r, "A23", "extract")
    /\ \E o \in ExtractOutcomes, page \in Pages, now \in Now :
          /\ Set(r, Extract23(req[r], o, page, now))
          /\ clock' = now
    /\ UNCHANGED <<disk, bucket, rows, apiKey>>

\* page.screenshot writes the file, or throws into takeQuickScreenshot's catch.
A23_Shot(r) ==
    LET Shot23(s, ok) ==
            IF ok THEN [s EXCEPT !.pc = "read"]
            ELSE [s EXCEPT !.shot = NullUrl, !.pc = "close"]
    IN  /\ At(r, "A23", "shot")
        /\ \E ok \in BOOLEAN :
              /\ Set(r, Shot23(req[r], ok))
              /\ disk' = IF ok THEN disk \cup {req[r].file} ELSE disk
        /\ UNCHANGED <<clock, bucket, rows, apiKey>>

\* readFileSync, then the upload is issued.
A23_Read(r) ==
    LET Read23(s, exists) ==
            IF exists THEN [s EXCEPT !.storage = @ + 1, !.pc = "upload"]
            ELSE [s EXCEPT !.shot = NullUrl, !.pc = "close"]
    IN  /\ At(r, "A23", "read")
        /\ Set(r, Read23(req[r], req[r].file \in disk))
        /\ UNCHANGED <<clock, disk, bucket, rows, apiKey>>

UploadOutcomes == {"ok", "error", "throws"}

\* The upload settles; getPublicUrl unless uploadError; unlinkSync; return.
\* The local file after takeQuickScreenshot: unlinked unless the upload threw.
A23_Upload(r) ==
    LET Upload23(s, o, exists) ==
            [s EXCEPT !.shot = IF o = "ok" /\ exists THEN PublicUrl(s.file) ELSE NullUrl,
                      !.failed = IF o = "ok" THEN @ ELSE @ \cup {s.file},
                      !.pc = "close"]
        Unlink23(d, f, o) == IF o = "throws" THEN d ELSE d \ {f}
    IN  /\ At(r, "A23", "upload")
        /\ \E o \in UploadOutcomes :
              /\ Set(r, Upload23(req[r], o, req[r].file \in disk))
              /\ disk' = Unlink23(disk, req[r].file, o)
              /\ bucket' = IF o = "ok" THEN bucket \cup {req[r].file} ELSE bucket
        /\ UNCHANGED <<clock, rows, apiKey>>

\* Step 5, then fastAIAnalysis up to its fetch.
Close23(s, ok, key) ==
    IF ~ok THEN Catch23(s)
    ELSE LET s1 == [s EXCEPT !.open = 0, !.browser = FALSE,
                            !.prompt = IF s.content = "" THEN "placeholder" ELSE "content"]
         IN  IF ~key
             THEN Build23([s1 EXCEPT !.ai = FallbackNoKey23, !.scoring = "nokey"])
             ELSE [s1 EXCEPT !.scorer = @ + 1, !.abortTimer = "armed", !.pc = "fetch"]

A23_Close(r) ==
    /\ At(r, "A23", "close")
    /\ \E ok \in BOOLEAN : Set(r, Close23(req[r], ok, apiKey))
    /\ UNCHANGED <<clock, disk, bucket, rows, apiKey>>

FetchOutcomes == {"ok", "non2xx", "abort"}

\* A fastAIAnalysis that lets a failed fetch escape its try block.
Fetch23Rethrow(s, o) ==
    IF o = "ok" THEN [s EXCEPT !.pc = "body"]
    ELSE Catch23([s EXCEPT !.scoring = o])

\* fetch settles: aborted by the 8 s timer, or with a response, and then
\* clearTimeout(timeout) runs before the status is looked at and the body read.
Fetch23(s, o) ==
    LET s1 == [s EXCEPT !.abortTimer = IF o = "abort" THEN "fired" ELSE "cleared"]
    IN  IF o = "ok" THEN [s1 EXCEPT !.pc = "body"]
        ELSE Build23([s1 EXCEPT !.ai = Fallback23, !.scoring = o])

A23_Fetch(r) ==
    /\ At(r, "A23", "fetch")
    /\ \E o \in FetchOutcomes : Set(r, Fetch23(req[r], o))
    /\ UNCHANGED <<clock, disk, bucket, rows, apiKey>>

\* response.json() and JSON.parse: a throw is caught and the fallback returned.
Body23(s, malformed, p) ==
    IF malformed THEN Build23([s EXCEPT !.ai = Fallback23, !.scoring = "malformed"])
    ELSE Build23([s EXCEPT !.ai = p, !.scoring = "parsed"])

A23_Body(r) ==
    /\ At(r, "A23", "body")
    /\ \E malformed \in BOOLEAN, p \in Parsed : Set(r, Body23(req[r], malformed, p))
    /\ UNCHANGED <<clock, disk, bucket, rows, apiKey>>

\* try { await browser.close() } catch (e) {} in the catch block.
A23_CatchClose(r) ==
    LET CatchClose23(s, ok) ==
            CatchTail23([s EXCEPT !.open = IF ok THEN 0 ELSE @])
    IN  /\ At(r, "A23", "c_close")
        /\ \E ok \in BOOLEAN : Set(r, CatchClose23(req[r], ok))
        /\ UNCHANGED <<clock, disk, bucket, rows, apiKey>>

A23(r) ==
    \/ A23_Receive(r) \/ A23_Deadline(r) \/ A23_Launch(r) \/ A23_NewPage(r)
    \/ A23_Goto(r) \/ A23_Extract(r) \/ A23_Shot(r) \/ A23_Read(r)
    \/ A23_Upload(r) \/ A23_Close(r) \/ A23_Fetch(r) \/ A23_Body(r)
    \/ A23_CatchClose(r)

\* A fetch that is issued a second time after its first failure.
CallFetchRetry(s, o) ==
    LET s1 == [s EXCEPT !.abortTimer = IF o = "abort" THEN "fired" ELSE "cleared"]
    IN  IF o = "ok" THEN [s1 EXCEPT !.pc = "body"]
        ELSE IF s.scorer < 2
        THEN [s1 EXCEPT !.scorer = @ + 1, !.abortTimer = "armed", !.pc = "fetch"]
        ELSE [s1 EXCEPT !.ai = AiNull, !.scoring = o, !.pc = "build"]

(***************************************************************************)
(* callOpenAI (2.1 and 2.2): null on every failure.                        *)
(***************************************************************************)
CallFetch(s, o) ==
    LET s1 == [s EXCEPT !.abortTimer = IF o = "abort" THEN "fired" ELSE "cleared"]
    IN  IF o = "ok" THEN [s1 EXCEPT !.pc = "body"]
        ELSE [s1 EXCEPT !.ai = AiNull, !.scoring = o, !.pc = "build"]

CallBody(s, malformed, p) ==
    IF malformed THEN [s EXCEPT !.ai = AiNull, !.scoring = "malformed", !.pc = "build"]
    ELSE [s EXCEPT !.ai = p, !.scoring = "parsed", !.pc = "build"]

\* aiResult?.scores || d
ScoresOr(ai, d) == IF ai.scores.t = "object" THEN ai.scores ELSE d
\* aiResult?.interviewReadiness || d
ReadinessOr(ai, d) == IF ai.interviewReadiness = "undefined" THEN d ELSE ai.interviewReadiness

\* Math.floor(Math.random() * 10 - 5): the ends of its range.
Offsets21 == {-5, 4}

(***************************************************************************)
(* A21: POST /analyze, 2.1-ultrafast.                                      *)
(***************************************************************************)
DefaultScores21 == ScoresOf(72, 70, 68, 75)
EntryScores21 == ScoresOf(70, 70, 70, 70)

CatchTail21(s) == Done(Send(s, 500, ErrorBody("catch")))

Catch21(s) ==
    LET s1 == [s EXCEPT !.threw = TRUE]
    IN  IF s1.browser THEN [s1 EXCEPT !.pc = "c_close"] ELSE CatchTail21(s1)

\* A handler that launches the browser without looking at url.
Entry21Unchecked(s, u) ==
    [s EXCEPT !.kind = "A21", !.url = u, !.pc = "launch", !.launches = @ + 1]

Entry21(s, u) ==
    LET s1 == [s EXCEPT !.kind = "A21", !.url = u]
    IN  IF Falsy(u) THEN Done(Send(s1, 400, ErrorBody("check")))
        ELSE [s1 EXCEPT !.pc = "launch", !.launches = @ + 1]

A21_Receive(r) ==
    /\ req[r].pc = "idle"
    /\ \E u \in Urls : Set(r, Entry21(req[r], u))
    /\ UNCHANGED <<clock, disk, bucket, rows, apiKey>>

A21_Launch(r) ==
    LET Launch21(s, ok) ==
            IF ok THEN [s EXCEPT !.browser = TRUE, !.open = 1, !.pc = "newPage"]
            ELSE Catch21(s)
    IN  /\ At(r, "A21", "launch")
        /\ \E ok \in BOOLEAN : Set(r, Launch21(req[r], ok))
        /\ UNCHANGED <<clock, disk, bucket, rows, apiKey>>

A21_NewPage(r) ==
    LET NewPage21(s, ok) ==
            IF ok THEN [s EXCEPT !.pc = "goto", !.loadSuccess = FALSE, !.content = "",
                                 !.pageTitle = "Portfolio", !.links = <<>>]
            ELSE Catch21(s)
    IN  /\ At(r, "A21", "newPage")
        /\ \E ok \in BOOLEAN : Set(r, NewPage21(req[r], ok))
        /\ UNCHANGED <<clock, disk, bucket, rows, apiKey>>

\* A first load whose failure is final.
Goto21Once(s, ok) ==
    LET s1 == [s EXCEPT !.loads = Append(@, [waitUntil |-> "domcontentloaded", ok |-> ok])]
    IN  IF ok THEN [s1 EXCEPT !.loadSuccess = TRUE, !.pc = "extract"]
        ELSE [s1 EXCEPT !.pc = "close"]

\* waitUntil domcontentloaded; on a throw the commit load is tried.
Goto21(s, ok) ==
    LET s1 == [s EXCEPT !.loads = Append(@, [waitUntil |-> "domcontentloaded", ok |-> ok])]
    IN  IF ok THEN [s1 EXCEPT !.loadSuccess = TRUE, !.pc = "extract"]
        ELSE [s1 EXCEPT !.pc = "goto2"]

A21_Goto(r) ==
    /\ At(r, "A21", "goto")
    /\ \E ok \in BOOLEAN : Set(r, Goto21(req[r], ok))
    /\ UNCHANGED <<clock, disk, bucket, rows, apiKey>>

\* waitUntil commit; on a throw the page stays unloaded and the browser closes.
GotoCommit21(s, ok) ==
    LET s1 == [s EXCEPT !.loads = Append(@, [waitUntil |-> "commit", ok |-> ok])]
    IN  IF ok THEN [s1 EXCEPT !.loadSuccess = TRUE, !.pc = "extract"]
        ELSE [s1 EXCEPT !.pc = "close"]

A21_GotoCommit(r) ==
    /\ At(r, "A21", "goto2")
    /\ \E ok \in BOOLEAN : Set(r, GotoCommit21(req[r], ok))
    /\ UNCHANGED <<clock, disk, bucket, rows, apiKey>>

LinkOutcomes == {"ok", "evaluateThrows", "titleThrows", "linksThrow"}

\* Step 3: content, title, links; a throw keeps what was assigned before it.
Extract21(s, o, page) ==
    [s EXCEPT !.content = IF o = "evaluateThrows" THEN @ ELSE page.text,
              !.pageTitle = IF o \in {"ok", "linksThrow"} /\ page.title # ""
                            THEN page.title ELSE "Portfolio",
              !.anchors = IF o = "ok" THEN page.anchors ELSE <<>>,
              !.links = IF o = "ok" THEN CaseStudyLinks21(page.anchors) ELSE <<>>,
              !.pc = "close"]

A21_Extract(r) ==
    /\ At(r, "A21", "extract")
    /\ \E o \in LinkOutcomes, page \in Pages :
           Set(r, Extract21(req[r], o, page))
    /\ UNCHANGED <<clock, disk, bucket, rows, apiKey>>

\* Step 4, then callOpenAI up to its fetch.
Close21(s, ok, key) ==
    IF ~ok THEN Catch21(s)
    ELSE LET s1 == [s EXCEPT !.open = 0, !.browser = FALSE,
                            !.prompt = IF s.content = "" THEN "placeholder" ELSE "content"]
         IN  IF ~key THEN [s1 EXCEPT !.ai = AiNull, !.scoring = "nokey", !.pc = "build"]
             ELSE [s1 EXCEPT !.scorer = @ + 1, !.abortTimer = "armed", !.pc = "fetch"]

A21_Close(r) ==
    /\ At(r, "A21", "close")
    /\ \E ok \in BOOLEAN : Set(r, Close21(req[r], ok, apiKey))
    /\ UNCHANGED <<clock, disk, bucket, rows, apiKey>>

A21_Fetch(r) ==
    /\ At(r, "A21", "fetch")
    /\ \E o \in FetchOutcomes : Set(r, CallFetch(req[r], o))
    /\ UNCHANGED <<clock, disk, bucket, rows, apiKey>>

A21_Body(r) ==
    /\ At(r, "A21", "body")
    /\ \E malformed \in BOOLEAN, p \in Parsed : Set(r, CallBody(req[r], malformed, p))
    /\ UNCHANGED <<clock, disk, bucket, rows, apiKey>>

\* caseStudies: one entry per link, or the synthetic homepage entry.
CaseStudies21(s, off) ==
    LET base == OrElse(s.ai.overallScore, Num(72))
    IN  IF Len(s.links) > 0
        THEN [i \in 1..Len(s.links) |->
                 CaseStudy(s.links[i].text, Num(base.v + off[i]),
                           ScoresOr(s.ai, EntryScores21), Shots(NullUrl))]
        ELSE << CaseStudy(<<"Portfolio Homepage">>, base,
                          ScoresOr(s.ai, EntryScores21), Shots(NullUrl)) >>

Report21(s, off) ==
    ReportBody("pipeline", OrElse(s.ai.overallScore, Num(72)),
               ScoresOr(s.ai, DefaultScores21),
               ReadinessOr(s.ai, "Almost ready"), CaseStudies21(s, off))

\* Step 6: new URL(link.href) throws into the catch block on a bad href.
Build21(s, off) ==
    IF \E i \in 1..Len(s.links) : URLThrows(s.links[i].href) THEN Catch21(s)
    ELSE Done(Send(s, 200, Report21(s, off)))

A21_Build(r) ==
    /\ At(r, "A21", "build")
    /\ \E off \in [1..Cap21 -> Offsets21] : Set(r, Build21(req[r], off))
    /\ UNCHANGED <<clock, disk, bucket, rows, apiKey>>

A21_CatchClose(r) ==
    LET CatchClose21(s, ok) == CatchTail21([s EXCEPT !.open = IF ok THEN 0 ELSE @])
    IN  /\ At(r, "A21", "c_close")
        /\ \E ok \in BOOLEAN : Set(r, CatchClose21(req[r], ok))
        /\ UNCHANGED <<clock, disk, bucket, rows, apiKey>>

A21(r) ==
    \/ A21_Receive(r) \/ A21_Launch(r) \/ A21_NewPage(r) \/ A21_Goto(r)
    \/ A21_GotoCommit(r) \/ A21_Extract(r) \/ A21_Close(r) \/ A21_Fetch(r)
    \/ A21_Body(r) \/ A21_Build(r) \/ A21_CatchClose(r)

(***************************************************************************)
(* A22: POST /analyze, 2.2-with-screenshots.                               *)
(***************************************************************************)
Cap22 == 2
CaseStudyLinks22(anchors) == Take(SelectSeq(WithText(anchors), Matches), Cap22)

DefaultScores22 == ScoresOf(75, 72, 70, 78)

\* 75 + Math.floor(Math.random() * 15): the ends of its range.
Offsets22 == {0, 14}

CatchTail22(s) == Done(Send(s, 500, ErrorBody("catch")))

Catch22(s) ==
    LET s1 == [s EXCEPT !.threw = TRUE]
    IN  IF s1.browser THEN [s1 EXCEPT !.pc = "c_close"] ELSE CatchTail22(s1)

A22_Receive(r) ==
    LET Entry22(s, u) ==
            LET s1 == [s EXCEPT !.kind = "A22", !.url = u]
            IN  IF Falsy(u) THEN Done(Send(s1, 400, ErrorBody("check")))
                ELSE [s1 EXCEPT !.pc = "launch", !.launches = @ + 1]
    IN  /\ req[r].pc = "idle"
        /\ \E u \in Urls : Set(r, Entry22(req[r], u))
        /\ UNCHANGED <<clock, disk, bucket, rows, apiKey>>

A22_Launch(r) ==
    LET Launch22(s, ok) ==
            IF ok THEN [s EXCEPT !.browser = TRUE, !.open = 1, !.pc = "newPage"]
            ELSE Catch22(s)
    IN  /\ At(r, "A22", "launch")
        /\ \E ok \in BOOLEAN : Set(r, Launch22(req[r], ok))
        /\ UNCHANGED <<clock, disk, bucket, rows, apiKey>>

A22_NewPage(r) ==
    LET NewPage22(s, ok) ==
            IF ok THEN [s EXCEPT !.pc = "goto", !.loadSuccess = FALSE, !.content = "",
                                 !.pageTitle = "Portfolio", !.links = <<>>]
            ELSE Catch22(s)
    IN  /\ At(r, "A22", "newPage")
        /\ \E ok \in BOOLEAN : Set(r, NewPage22(req[r], ok))
        /\ UNCHANGED <<clock, disk, bucket, rows, apiKey>>

\* A loop end that goes back to step 3 once.
NextCs22Again(s) ==
    IF s.i < Len(s.links) THEN [s EXCEPT !.pc = "cs_goto"]
    ELSE IF s.loadSuccess /\ Len(s.made) < 2 THEN [s EXCEPT !.pc = "extract"]
    ELSE [s EXCEPT !.pc = "close"]

\* Step 5's loop head: the next case study's page.goto, or step 6's close.
NextCs22(s) ==
    IF s.i < Len(s.links) THEN [s EXCEPT !.pc = "cs_goto"] ELSE [s EXCEPT !.pc = "close"]

\* Step 2: one load; unloaded, steps 3 and 4 are skipped.
Goto22(s, ok) ==
    LET s1 == [s EXCEPT !.loads = Append(@, [waitUntil |-> "domcontentloaded", ok |-> ok])]
    IN  IF ok THEN [s1 EXCEPT !.loadSuccess = TRUE, !.pc = "extract"]
        ELSE NextCs22([s1 EXCEPT !.shot = NullUrl, !.cs = <<>>, !.i = 0])

A22_Goto(r) ==
    /\ At(r, "A22", "goto")
    /\ \E ok \in BOOLEAN : Set(r, Goto22(req[r], ok))
    /\ UNCHANGED <<clock, disk, bucket, rows, apiKey>>

\* Step 3, then step 4 up to its page.screenshot.
Extract22(s, o, page, now) ==
    LET f == Name("homepage", 0, now, 0)
    IN  [s EXCEPT !.content = IF o = "evaluateThrows" THEN @ ELSE page.text,
                  !.pageTitle = IF o \in {"ok", "linksThrow"} /\ page.title # ""
                                THEN page.title ELSE "Portfolio",
                  !.anchors = IF o = "ok" THEN page.anchors ELSE <<>>,
                  !.links = IF o = "ok" THEN CaseStudyLinks22(page.anchors) ELSE <<>>,
                  !.shot = NullUrl, !.cs = <<>>, !.i = 0,
                  !.file = f, !.made = Append(@, f), !.pc = "h_shot"]

A22_Extract(r) ==
    /\ At(r, "A22", "extract")
    /\ \E o \in LinkOutcomes, page \in Pages, now \in Now :
          /\ Set(r, Extract22(req[r], o, page, now))
          /\ clock' = now
    /\ UNCHANGED <<disk, bucket, rows, apiKey>>

A22_HomeShot(r) ==
    LET HomeShot22(s, ok) == IF ok THEN [s EXCEPT !.pc = "h_read"] ELSE NextCs22(s)
    IN  /\ At(r, "A22", "h_shot")
        /\ \E ok \in BOOLEAN :
              /\ Set(r, HomeShot22(req[r], ok))
              /\ disk' = IF ok THEN disk \cup {req[r].file} ELSE disk
        /\ UNCHANGED <<clock, bucket, rows, apiKey>>

A22_HomeRead(r) ==
    LET HomeRead22(s, exists) ==
            IF exists THEN [s EXCEPT !.storage = @ + 1, !.pc = "h_upload"] ELSE NextCs22(s)
    IN  /\ At(r, "A22", "h_read")
        /\ Set(r, HomeRead22(req[r], req[r].file \in disk))
        /\ UNCHANGED <<clock, disk, bucket, rows, apiKey>>

\* fs.unlinkSync(screenshotFile) is skipped when the upload throws.
Unlink22(d, f, o) == IF o = "throws" THEN d ELSE d \ {f}

\* homepageScreenshot is assigned before unlinkSync.
A22_HomeUpload(r) ==
    LET HomeUpload22(s, o) ==
            NextCs22([s EXCEPT !.shot = IF o = "ok" THEN PublicUrl(s.file) ELSE NullUrl,
                               !.failed = IF o = "ok" THEN @ ELSE @ \cup {s.file}])
    IN  /\ At(r, "A22", "h_upload")
        /\ \E o \in UploadOutcomes :
              /\ Set(r, HomeUpload22(req[r], o))
              /\ disk' = Unlink22(disk, req[r].file, o)
              /\ bucket' = IF o = "ok" THEN bucket \cup {req[r].file} ELSE bucket
        /\ UNCHANGED <<clock, rows, apiKey>>

\* caseStudies.push: new URL(link.href) throws into the outer catch.
PushCs22(s, u, rnd) ==
    LET link == s.links[s.i + 1]
    IN  IF URLThrows(link.href) THEN Catch22(s)
        ELSE NextCs22([s EXCEPT
                 !.cs = Append(@, CaseStudy(link.text, Num(75 + rnd),
                                            DefaultScores22, Shots(u))),
                 !.i = @ + 1])

A22_CsGoto(r) ==
    LET CsGoto22(s, ok, now, rnd) ==
            LET f == Name("casestudy", s.i, now, 0)
            IN  IF ok THEN [s EXCEPT !.file = f, !.made = Append(@, f), !.pc = "cs_shot"]
                ELSE PushCs22(s, NullUrl, rnd)
    IN  /\ At(r, "A22", "cs_goto")
        /\ \E ok \in BOOLEAN, rnd \in Offsets22, now \in Now :
              /\ Set(r, CsGoto22(req[r], ok, now, rnd))
              /\ clock' = IF ok THEN now ELSE clock
        /\ UNCHANGED <<disk, bucket, rows, apiKey>>

A22_CsShot(r) ==
    LET CsShot22(s, ok, rnd) ==
            IF ok THEN [s EXCEPT !.pc = "cs_read"] ELSE PushCs22(s, NullUrl, rnd)
    IN  /\ At(r, "A22", "cs_shot")
        /\ \E ok \in BOOLEAN, rnd \in Offsets22 :
              /\ Set(r, CsShot22(req[r], ok, rnd))
              /\ disk' = IF ok THEN disk \cup {req[r].file} ELSE disk
        /\ UNCHANGED <<clock, bucket, rows, apiKey>>

A22_CsRead(r) ==
    LET CsRead22(s, exists, rnd) ==
            IF exists THEN [s EXCEPT !.storage = @ + 1, !.pc = "cs_upload"]
            ELSE PushCs22(s, NullUrl, rnd)
    IN  /\ At(r, "A22", "cs_read")
        /\ \E rnd \in Offsets22 : Set(r, CsRead22(req[r], req[r].file \in disk, rnd))
        /\ UNCHANGED <<clock, disk, bucket, rows, apiKey>>

A22_CsUpload(r) ==
    LET CsUpload22(s, o, rnd) ==
            PushCs22([s EXCEPT !.failed = IF o = "ok" THEN @ ELSE @ \cup {s.file}],
                     IF o = "ok" THEN PublicUrl(s.file) ELSE NullUrl, rnd)
    IN  /\ At(r, "A22", "cs_upload")
        /\ \E o \in UploadOutcomes, rnd \in Offsets22 :
              /\ Set(r, CsUpload22(req[r], o, rnd))
              /\ disk' = Unlink22(disk, req[r].file, o)
              /\ bucket' = IF o = "ok" THEN bucket \cup {req[r].file} ELSE bucket
        /\ UNCHANGED <<clock, rows, apiKey>>

\* Step 6, then callOpenAI up to its fetch.
Close22(s, ok, key) ==
    IF ~ok THEN Catch22(s)
    ELSE LET s1 == [s EXCEPT !.open = 0, !.browser = FALSE,
                            !.prompt = IF s.content = "" THEN "placeholder" ELSE "content"]
         IN  IF ~key THEN [s1 EXCEPT !.ai = AiNull, !.scoring = "nokey", !.pc = "build"]
             ELSE [s1 EXCEPT !.scorer = @ + 1, !.abortTimer = "armed", !.pc = "fetch"]

A22_Close(r) ==
    /\ At(r, "A22", "close")
    /\ \E ok \in BOOLEAN : Set(r, Close22(req[r], ok, apiKey))
    /\ UNCHANGED <<clock, disk, bucket, rows, apiKey>>

A22_Fetch(r) ==
    /\ At(r, "A22", "fetch")
    /\ \E o \in FetchOutcomes : Set(r, CallFetch(req[r], o))
    /\ UNCHANGED <<clock, disk, bucket, rows, apiKey>>

A22_Body(r) ==
    /\ At(r, "A22", "body")
    /\ \E malformed \in BOOLEAN, p \in Parsed : Set(r, CallBody(req[r], malformed, p))
    /\ UNCHANGED <<clock, disk, bucket, rows, apiKey>>

\* Step 8: the homepage entry when no case study was pushed.
CaseStudies22(s) ==
    IF Len(s.cs) = 0
    THEN << CaseStudy(<<"Portfolio Homepage">>, OrElse(s.ai.overallScore, Num(75)),
                      ScoresOr(s.ai, DefaultScores22), Shots(s.shot)) >>
    ELSE s.cs

Report22(s) ==
    ReportBody("pipeline", OrElse(s.ai.overallScore, Num(75)),
               ScoresOr(s.ai, DefaultScores22),
               ReadinessOr(s.ai, "Almost ready"), CaseStudies22(s))

Build22(s) == Done(Send(s, 200, Report22(s)))

A22_Build(r) ==
    /\ At(r, "A22", "build")
    /\ Set(r, Build22(req[r]))
    /\ UNCHANGED <<clock, disk, bucket, rows, apiKey>>

A22_CatchClose(r) ==
    LET CatchClose22(s, ok) == CatchTail22([s EXCEPT !.open = IF ok THEN 0 ELSE @])
    IN  /\ At(r, "A22", "c_close")
        /\ \E ok \in BOOLEAN : Set(r, CatchClose22(req[r], ok))
        /\ UNCHANGED <<clock, disk, bucket, rows, apiKey>>

A22(r) ==
    \/ A22_Receive(r) \/ A22_Launch(r) \/ A22_NewPage(r) \/ A22_Goto(r)
    \/ A22_Extract(r) \/ A22_HomeShot(r) \/ A22_HomeRead(r) \/ A22_HomeUpload(r)
    \/ A22_CsGoto(r) \/ A22_CsShot(r) \/ A22_CsRead(r) \/ A22_CsUpload(r)
    \/ A22_Close(r) \/ A22_Fetch(r) \/ A22_Body(r) \/ A22_Build(r)
    \/ A22_CatchClose(r)

(***************************************************************************)
(* R2: POST /review of 2.1 and 2.2.  The browser is a const of the try     *)
(* block: the catch block cannot close it.                                 *)
(***************************************************************************)
CatchR2(s) == Done(Send([s EXCEPT !.threw = TRUE], 500, PlainError("catch")))

R2_Receive(r) ==
    LET EntryR2(s, u) ==
            LET s1 == [s EXCEPT !.kind = "R2", !.url = u]
            IN  IF Falsy(u) THEN Done(Send(s1, 400, PlainError("check")))
                ELSE [s1 EXCEPT !.pc = "launch", !.launches = @ + 1]
    IN  /\ req[r].pc = "idle"
        /\ \E u \in Urls : Set(r, EntryR2(req[r], u))
        /\ UNCHANGED <<clock, disk, bucket, rows, apiKey>>

R2_Launch(r) ==
    LET LaunchR2(s, ok) == IF ok THEN [s EXCEPT !.open = 1, !.pc = "newPage"] ELSE CatchR2(s)
    IN  /\ At(r, "R2", "launch")
        /\ \E ok \in BOOLEAN : Set(r, LaunchR2(req[r], ok))
        /\ UNCHANGED <<clock, disk, bucket, rows, apiKey>>

R2_NewPage(r) ==
    LET NewPageR2(s, ok) == IF ok THEN [s EXCEPT !.pc = "goto"] ELSE CatchR2(s)
    IN  /\ At(r, "R2", "newPage")
        /\ \E ok \in BOOLEAN : Set(r, NewPageR2(req[r], ok))
        /\ UNCHANGED <<clock, disk, bucket, rows, apiKey>>

\* page.goto settles; fileName = `portfolio-${Date.now()}.png`; page.screenshot.
R2_Goto(r) ==
    LET GotoR2(s, ok, now) ==
            LET f == Name("portfolio", 0, now, 0)
            IN  IF ok THEN [s EXCEPT !.file = f, !.made = Append(@, f), !.pc = "shot"]
                ELSE CatchR2(s)
    IN  /\ At(r, "R2", "goto")
        /\ \E ok \in BOOLEAN, now \in Now :
              /\ Set(r, GotoR2(req[r], ok, now))
              /\ clock' = IF ok THEN now ELSE clock
        /\ UNCHANGED <<disk, bucket, rows, apiKey>>

R2_Shot(r) ==
    LET ShotR2(s, ok) == IF ok THEN [s EXCEPT !.pc = "close"] ELSE CatchR2(s)
    IN  /\ At(r, "R2", "shot")
        /\ \E ok \in BOOLEAN :
              /\ Set(r, ShotR2(req[r], ok))
              /\ disk' = IF ok THEN disk \cup {req[r].file} ELSE disk
        /\ UNCHANGED <<clock, bucket, rows, apiKey>>

\* browser.close settles; readFileSync; the upload is issued.
R2_Close(r) ==
    LET CloseR2(s, ok, exists) ==
            IF ok /\ exists THEN [s EXCEPT !.open = 0, !.storage = @ + 1, !.pc = "upload"]
            ELSE IF ok THEN CatchR2([s EXCEPT !.open = 0])
            ELSE CatchR2(s)
    IN  /\ At(r, "R2", "close")
        /\ \E ok \in BOOLEAN : Set(r, CloseR2(req[r], ok, req[r].file \in disk))
        /\ UNCHANGED <<clock, disk, bucket, rows, apiKey>>

\* The upload's result is not looked at; getPublicUrl; the insert is issued.
UploadR2(s, o) ==
    LET s1 == [s EXCEPT !.failed = IF o = "ok" THEN @ ELSE @ \cup {s.file}]
    IN  IF o = "throws" THEN CatchR2(s1)
        ELSE [s1 EXCEPT !.uploaded = (o = "ok"), !.shot = PublicUrl(s.file),
                        !.pc = "insert"]

R2_Upload(r) ==
    /\ At(r, "R2", "upload")
    /\ \E o \in UploadOutcomes :
          /\ Set(r, UploadR2(req[r], o))
          /\ bucket' = IF o = "ok" THEN bucket \cup {req[r].file} ELSE bucket
    /\ UNCHANGED <<clock, disk, rows, apiKey>>

InsertOutcomes == {"ok", "error", "throws"}

Row(r, s) == [req |-> r, url |-> s.url, status |-> "done", screenshot_url |-> s.shot,
              uploaded |-> s.uploaded]

\* The insert settles; unlinkSync; the response.
InsertR2(s, o, exists) ==
    IF o = "throws" \/ ~exists THEN CatchR2(s)
    ELSE Done(Send(s, 200, ReviewBody(s.shot)))

R2_Insert(r) ==
    /\ At(r, "R2", "insert")
    /\ \E o \in InsertOutcomes :
          /\ Set(r, InsertR2(req[r], o, req[r].file \in disk))
          /\ rows' = IF o = "ok" THEN rows \cup {Row(r, req[r])} ELSE rows
          /\ disk' = IF o = "throws" THEN disk ELSE disk \ {req[r].file}
    /\ UNCHANGED <<clock, bucket, apiKey>>

R2(r) ==
    \/ R2_Receive(r) \/ R2_Launch(r) \/ R2_NewPage(r) \/ R2_Goto(r)
    \/ R2_Shot(r) \/ R2_Close(r) \/ R2_Upload(r) \/ R2_Insert(r)

(***************************************************************************)
(* R1: POST /review, first variant: the upload's error is looked at.       *)
(***************************************************************************)
CatchR1(s) == Done(Send([s EXCEPT !.threw = TRUE], 500, PlainError("catch")))

R1_Receive(r) ==
    LET EntryR1(s, u) ==
            LET s1 == [s EXCEPT !.kind = "R1", !.url = u]
            IN  IF Falsy(u) THEN Done(Send(s1, 400, PlainError("check")))
                ELSE [s1 EXCEPT !.pc = "launch", !.launches = @ + 1]
    IN  /\ req[r].pc = "idle"
        /\ \E u \in Urls : Set(r, EntryR1(req[r], u))
        /\ UNCHANGED <<clock, disk, bucket, rows, apiKey>>

R1_Launch(r) ==
    LET LaunchR1(s, ok) == IF ok THEN [s EXCEPT !.open = 1, !.pc = "newPage"] ELSE CatchR1(s)
    IN  /\ At(r, "R1", "launch")
        /\ \E ok \in BOOLEAN : Set(r, LaunchR1(req[r], ok))
        /\ UNCHANGED <<clock, disk, bucket, rows, apiKey>>

R1_NewPage(r) ==
    LET NewPageR1(s, ok) == IF ok THEN [s EXCEPT !.pc = "goto"] ELSE CatchR1(s)
    IN  /\ At(r, "R1", "newPage")
        /\ \E ok \in BOOLEAN : Set(r, NewPageR1(req[r], ok))
        /\ UNCHANGED <<clock, disk, bucket, rows, apiKey>>

R1_Goto(r) ==
    LET GotoR1(s, ok, now) ==
            LET f == Name("portfolio", 0, now, 0)
            IN  IF ok THEN [s EXCEPT !.file = f, !.made = Append(@, f), !.pc = "shot"]
                ELSE CatchR1(s)
    IN  /\ At(r, "R1", "goto")
        /\ \E ok \in BOOLEAN, now \in Now :
              /\ Set(r, GotoR1(req[r], ok, now))
              /\ clock' = IF ok THEN now ELSE clock
        /\ UNCHANGED <<disk, bucket, rows, apiKey>>

R1_Shot(r) ==
    LET ShotR1(s, ok) == IF ok THEN [s EXCEPT !.pc = "close"] ELSE CatchR1(s)
    IN  /\ At(r, "R1", "shot")
        /\ \E ok \in BOOLEAN :
              /\ Set(r, ShotR1(req[r], ok))
              /\ disk' = IF ok THEN disk \cup {req[r].file} ELSE disk
        /\ UNCHANGED <<clock, bucket, rows, apiKey>>

R1_Close(r) ==
    LET CloseR1(s, ok, exists) ==
            IF ok /\ exists THEN [s EXCEPT !.open = 0, !.storage = @ + 1, !.pc = "upload"]
            ELSE IF ok THEN CatchR1([s EXCEPT !.open = 0])
            ELSE CatchR1(s)
    IN  /\ At(r, "R1", "close")
        /\ \E ok \in BOOLEAN : Set(r, CloseR1(req[r], ok, req[r].file \in disk))
        /\ UNCHANGED <<clock, disk, bucket, rows, apiKey>>

\* if (uploadError) return 500 "Upload failed"; else getPublicUrl and the insert.
R1_Upload(r) ==
    LET UploadR1(s, o) ==
            LET s1 == [s EXCEPT !.failed = IF o = "ok" THEN @ ELSE @ \cup {s.file}]
            IN  IF o = "throws" THEN CatchR1(s1)
                ELSE IF o = "error" THEN Done(Send(s1, 500, PlainError("upload")))
                ELSE [s1 EXCEPT !.uploaded = TRUE, !.shot = PublicUrl(s.file), !.pc = "insert"]
    IN  /\ At(r, "R1", "upload")
        /\ \E o \in UploadOutcomes :
              /\ Set(r, UploadR1(req[r], o))
              /\ bucket' = IF o = "ok" THEN bucket \cup {req[r].file} ELSE bucket
        /\ UNCHANGED <<clock, disk, rows, apiKey>>

R1_Insert(r) ==
    LET InsertR1(s, o, exists) ==
            IF o = "throws" \/ ~exists THEN CatchR1(s)
            ELSE Done(Send(s, 200, ReviewBody(s.shot)))
    IN  /\ At(r, "R1", "insert")
        /\ \E o \in InsertOutcomes :
              /\ Set(r, InsertR1(req[r], o, req[r].file \in disk))
              /\ rows' = IF o = "ok" THEN rows \cup {Row(r, req[r])} ELSE rows
              /\ disk' = IF o = "throws" THEN disk ELSE disk \ {req[r].file}
        /\ UNCHANGED <<clock, bucket, apiKey>>

R1(r) ==
    \/ R1_Receive(r) \/ R1_Launch(r) \/ R1_NewPage(r) \/ R1_Goto(r)
    \/ R1_Shot(r) \/ R1_Close(r) \/ R1_Upload(r) \/ R1_Insert(r)

(***************************************************************************)
(* A1: POST /analyze, first variant: crawl the case-study links and take   *)
(* a desktop and a mobile screenshot of each.                              *)
(***************************************************************************)
Cap1 == 3

\* .map(a => a.href).filter(Boolean), then includes on the href as written.
MatchesHref(l) ==
    Includes(l.href, "case") \/ Includes(l.href, "work") \/ Includes(l.href, "project")

CaseStudyLinks1(anchors) ==
    SelectSeq(SelectSeq(anchors, LAMBDA l : Len(l.href) > 0), MatchesHref)

\* Math.random().toString(36).slice(2): a suffix no other draw returns.
RandomSuffix(r, s) == r * 100 + Len(s.made) + 1

Catch1(s) == Done(Send([s EXCEPT !.threw = TRUE], 500, PlainError("catch")))

A1_Receive(r) ==
    LET Entry1(s, u) ==
            LET s1 == [s EXCEPT !.kind = "A1", !.url = u]
            IN  IF Falsy(u) THEN Done(Send(s1, 400, PlainError("check")))
                ELSE [s1 EXCEPT !.pc = "launch", !.launches = @ + 1]
    IN  /\ req[r].pc = "idle"
        /\ \E u \in Urls : Set(r, Entry1(req[r], u))
        /\ UNCHANGED <<clock, disk, bucket, rows, apiKey>>

A1_Launch(r) ==
    LET Launch1(s, ok) == IF ok THEN [s EXCEPT !.open = 1, !.pc = "newPage"] ELSE Catch1(s)
    IN  /\ At(r, "A1", "launch")
        /\ \E ok \in BOOLEAN : Set(r, Launch1(req[r], ok))
        /\ UNCHANGED <<clock, disk, bucket, rows, apiKey>>

A1_NewPage(r) ==
    LET NewPage1(s, ok) == IF ok THEN [s EXCEPT !.pc = "goto"] ELSE Catch1(s)
    IN  /\ At(r, "A1", "newPage")
        /\ \E ok \in BOOLEAN : Set(r, NewPage1(req[r], ok))
        /\ UNCHANGED <<clock, disk, bucket, rows, apiKey>>

\* page.goto is not in a try of its own: a failed load ends the request.
A1_Goto(r) ==
    LET Goto1(s, ok) ==
            LET s1 == [s EXCEPT !.loads = Append(@, [waitUntil |-> "networkidle2", ok |-> ok])]
            IN  IF ok THEN [s1 EXCEPT !.pc = "links"] ELSE Catch1(s1)
    IN  /\ At(r, "A1", "goto")
        /\ \E ok \in BOOLEAN : Set(r, Goto1(req[r], ok))
        /\ UNCHANGED <<clock, disk, bucket, rows, apiKey>>

\* Steps 2 and 3; without a match the browser is closed, else the first 3
\* are visited.
Links1(s, ok, page) ==
    IF ~ok THEN Catch1(s)
    ELSE LET found == CaseStudyLinks1(page.anchors)
         IN  IF Len(found) = 0
             THEN [s EXCEPT !.anchors = page.anchors, !.links = <<>>, !.pc = "close0"]
             ELSE [s EXCEPT !.anchors = page.anchors,
                            !.links = Take(found, Cap1), !.cs = <<>>, !.i = 0,
                            !.pc = "cs_page"]

A1_Links(r) ==
    /\ At(r, "A1", "links")
    /\ \E ok \in BOOLEAN, page \in Pages : Set(r, Links1(req[r], ok, page))
    /\ UNCHANGED <<clock, disk, bucket, rows, apiKey>>

CloseEmpty1(s, ok) ==
    IF ok THEN Done(Send([s EXCEPT !.open = 0], 200, CrawlBody(<<>>))) ELSE Catch1(s)

A1_CloseEmpty(r) ==
    /\ At(r, "A1", "close0")
    /\ \E ok \in BOOLEAN : Set(r, CloseEmpty1(req[r], ok))
    /\ UNCHANGED <<clock, disk, bucket, rows, apiKey>>

\* newPage, goto, setViewport; desktopFile; the desktop screenshot is issued.
A1_CsPage(r) ==
    LET CsPage1(s, ok, now, rnd) ==
            LET f == Name("desktop", 0, now, rnd)
            IN  IF ok THEN [s EXCEPT !.file = f, !.made = Append(@, f), !.pc = "cs_desk"]
                ELSE Catch1(s)
    IN  /\ At(r, "A1", "cs_page")
        /\ \E ok \in BOOLEAN, now \in Now :
              /\ Set(r, CsPage1(req[r], ok, now, RandomSuffix(r, req[r])))
              /\ clock' = IF ok THEN now ELSE clock
        /\ UNCHANGED <<disk, bucket, rows, apiKey>>

\* The desktop file is written; setViewport; mobileFile; the mobile screenshot.
A1_CsDesk(r) ==
    LET CsDesk1(s, ok, now, rnd) ==
            LET f == Name("mobile", 0, now, rnd)
            IN  IF ok THEN [s EXCEPT !.file2 = f, !.made = Append(@, f), !.pc = "cs_mob"]
                ELSE Catch1(s)
    IN  /\ At(r, "A1", "cs_desk")
        /\ \E ok \in BOOLEAN, now \in Now :
              /\ Set(r, CsDesk1(req[r], ok, now, RandomSuffix(r, req[r])))
              /\ clock' = IF ok THEN now ELSE clock
              /\ disk' = IF ok THEN disk \cup {req[r].file} ELSE disk
        /\ UNCHANGED <<bucket, rows, apiKey>>

A1_CsMob(r) ==
    LET CsMob1(s, ok) == IF ok THEN [s EXCEPT !.pc = "cs_read"] ELSE Catch1(s)
    IN  /\ At(r, "A1", "cs_mob")
        /\ \E ok \in BOOLEAN :
              /\ Set(r, CsMob1(req[r], ok))
              /\ disk' = IF ok THEN disk \cup {req[r].file2} ELSE disk
        /\ UNCHANGED <<clock, bucket, rows, apiKey>>

\* Both readFileSync; the desktop upload is issued.
A1_CsRead(r) ==
    LET CsRead1(s, exist) ==
            IF exist THEN [s EXCEPT !.storage = @ + 1, !.pc = "cs_up1"] ELSE Catch1(s)
    IN  /\ At(r, "A1", "cs_read")
        /\ Set(r, CsRead1(req[r], {req[r].file, req[r].file2} \subseteq disk))
        /\ UNCHANGED <<clock, disk, bucket, rows, apiKey>>

\* The desktop upload settles, its result dropped; the mobile upload is issued.
A1_CsUpDesk(r) ==
    LET CsUpDesk1(s, o) ==
            LET s1 == [s EXCEPT !.failed = IF o = "ok" THEN @ ELSE @ \cup {s.file}]
            IN  IF o = "throws" THEN Catch1(s1)
                ELSE [s1 EXCEPT !.storage = @ + 1, !.pc = "cs_up2"]
    IN  /\ At(r, "A1", "cs_up1")
        /\ \E o \in UploadOutcomes :
              /\ Set(r, CsUpDesk1(req[r], o))
              /\ bucket' = IF o = "ok" THEN bucket \cup {req[r].file} ELSE bucket
        /\ UNCHANGED <<clock, disk, rows, apiKey>>

\* The mobile upload settles; both public URLs; push; both unlinkSync; the
\* next link, or the browser is closed.
\* fs.unlinkSync(desktopFile); fs.unlinkSync(mobileFile), the first to throw
\* ending both.
A1_CsUpMob(r) ==
    LET CsUpMob1(s, o, exist) ==
            LET entry == CaseStudy(s.links[s.i + 1].href, Undefined, NoScores,
                             [desktopFull |-> PublicUrl(s.file), desktopFold |-> NullUrl,
                              mobileFull |-> PublicUrl(s.file2)])
                s0 == [s EXCEPT !.failed = IF o = "ok" THEN @ ELSE @ \cup {s.file2}]
                s1 == [s0 EXCEPT !.cs = Append(@, entry), !.i = @ + 1]
            IN  IF o = "throws" THEN Catch1(s0)
                ELSE IF ~exist THEN Catch1(s1)
                ELSE IF s1.i < Len(s1.links) THEN [s1 EXCEPT !.pc = "cs_page"]
                ELSE [s1 EXCEPT !.pc = "close"]
        UnlinkBoth1(d, f, f2, o) ==
            IF o = "throws" \/ f \notin d THEN d ELSE d \ {f, f2}
    IN  /\ At(r, "A1", "cs_up2")
        /\ \E o \in UploadOutcomes :
              /\ Set(r, CsUpMob1(req[r], o, {req[r].file, req[r].file2} \subseteq disk))
              /\ bucket' = IF o = "ok" THEN bucket \cup {req[r].file2} ELSE bucket
              /\ disk' = UnlinkBoth1(disk, req[r].file, req[r].file2, o)
        /\ UNCHANGED <<clock, rows, apiKey>>

A1_Close(r) ==
    LET Close1(s, ok) ==
            IF ok THEN Done(Send([s EXCEPT !.open = 0], 200, CrawlBody(s.cs))) ELSE Catch1(s)
    IN  /\ At(r, "A1", "close")
        /\ \E ok \in BOOLEAN : Set(r, Close1(req[r], ok))
        /\ UNCHANGED <<clock, disk, bucket, rows, apiKey>>

A1(r) ==
    \/ A1_Receive(r) \/ A1_Launch(r) \/ A1_NewPage(r) \/ A1_Goto(r)
    \/ A1_Links(r) \/ A1_CloseEmpty(r) \/ A1_CsPage(r) \/ A1_CsDesk(r)
    \/ A1_CsMob(r) \/ A1_CsRead(r) \/ A1_CsUpDesk(r) \/ A1_CsUpMob(r)
    \/ A1_Close(r)

(***************************************************************************)
(* Specifications.                                                         *)
(***************************************************************************)
Init ==
    /\ req = [r \in Req |-> NewReq(r = 1)]
    /\ clock = 0
    /\ disk = {}
    /\ bucket = {}
    /\ rows = {}
    /\ apiKey \in BOOLEAN

Next == \E r \in Req : A23(r) \/ A21(r) \/ A22(r) \/ R2(r) \/ R1(r) \/ A1(r)

Spec == Init /\ [][Next]_vars

\* The 2.3 server, started without OPENAI_API_KEY (fastAIAnalysis returns
\* before its fetch), serving every request of Req at once.
InitConc ==
    /\ req = [r \in Req |-> NewReq(TRUE)]
    /\ clock = 0
    /\ disk = {}
    /\ bucket = {}
    /\ rows = {}
    /\ apiKey = FALSE

NextConc ==
    \E r \in Req :
        \/ A23_Receive(r) \/ A23_Deadline(r) \/ A23_Launch(r) \/ A23_NewPage(r)
        \/ A23_Goto(r) \/ A23_Extract(r) \/ A23_Shot(r) \/ A23_Read(r)
        \/ A23_Upload(r) \/ A23_Close(r) \/ A23_CatchClose(r)

SpecConc == InitConc /\ [][NextConc]_vars

(***************************************************************************)
(* Properties.                                                             *)
(***************************************************************************)
AnalyzeKinds == {"A21", "A22", "A23", "A1"}
ReviewKinds == {"R1", "R2"}

\* The handler has returned and no timer of the request is still to run.
Finished(s) == s.pc = "done" /\ s.timer # "armed"

\* The handler is between its first and its last step.
InFlight(s) == s.pc \notin {"absent", "idle", "done"}

Step(r) == A23(r) \/ A21(r) \/ A22(r) \/ R2(r) \/ R1(r) \/ A1(r)

\* C1: a POST /analyze request never has two responses, a handler in flight
\* always has a next step to take (so none is left waiting without an
\* answer), and once the handler has returned and the timer is settled the
\* request has exactly one response.
C1_ExactlyOneResponse ==
    \A r \in Req :
        req[r].kind \in AnalyzeKinds =>
            /\ Len(req[r].sent) <= 1
            /\ InFlight(req[r]) => ENABLED Step(r)
            /\ Finished(req[r]) => Len(req[r].sent) = 1

\* The 2.3 pipeline ran to its end after the timer had answered.
C1_Witness ==
    \E r \in Req :
        /\ req[r].kind = "A23" /\ req[r].pc = "done"
        /\ req[r].timer = "fired" /\ ~req[r].threw
        /\ req[r].scoring = "parsed"
        /\ Len(req[r].sent) = 1

IsDefaultReport(b) ==
    /\ b.type = "report" /\ b.success = "true"
    /\ b.overallScore = Num(75)
    /\ b.scores = ScoresOf(75, 72, 70, 78)
    /\ b.interviewReadiness = "Needs review"
    /\ Len(b.caseStudies) = 1
    /\ b.caseStudies[1].title = <<"Portfolio Overview">>
    /\ b.caseStudies[1].screenshots.desktopFull.null

\* C3: in 2.3 the timer and the pipeline race for the one response.  If the
\* timer fires while the handler has not answered, the response is the
\* default report with status 200 and success true, whichever step was in
\* flight; if the pipeline assembles its report first, the timer is cleared
\* (it never fires) and the computed report is the one sent.
C3_FirstWins ==
    \A r \in Req :
        req[r].kind = "A23" =>
            /\ req[r].timer = "fired" =>
                  /\ Len(req[r].sent) = 1
                  /\ req[r].sent[1].status = 200
                  /\ IsDefaultReport(req[r].sent[1].body)
            /\ (Len(req[r].sent) > 0 /\ req[r].sent[1].body.src = "pipeline") =>
                  /\ req[r].timer = "cleared"
                  /\ req[r].sent = << Response(200, Report23(req[r])) >>
            /\ (Len(req[r].sent) > 0 /\ req[r].sent[1].body.src = "deadline") =>
                  req[r].timer = "fired"

\* The timer fired while the upload of the screenshot was in flight.
C3_Witness ==
    \E r \in Req :
        /\ req[r].kind = "A23" /\ req[r].pc = "upload"
        /\ req[r].timer = "fired"
        /\ Len(req[r].sent) = 1

\* C4: a request to /analyze or /review whose url is missing or empty is
\* answered 400 and nothing else, and no browser is launched, no storage
\* call and no scoring call is made for it.
C4_BadRequest ==
    \A r \in Req :
        (req[r].kind # "none" /\ Falsy(req[r].url)) =>
            /\ req[r].pc = "done"
            /\ Len(req[r].sent) = 1
            /\ req[r].sent[1].status = 400
            /\ req[r].launches = 0 /\ req[r].open = 0
            /\ req[r].storage = 0 /\ req[r].scorer = 0
            /\ req[r].made = <<>> /\ disk = {} /\ bucket = {} /\ rows = {}

\* /review was sent an empty url.
C4_Witness ==
    \E r \in Req :
        /\ req[r].kind \in ReviewKinds /\ req[r].url = ""
        /\ Len(req[r].sent) = 1 /\ req[r].sent[1].status = 400

IsNumScores(sc) ==
    /\ sc.t = "object"
    /\ IsNum(sc.uxThinking) /\ IsNum(sc.clarity)
    /\ IsNum(sc.storytelling) /\ IsNum(sc.professionalism)

\* C5: every 200 answer of POST /analyze (pipeline or timer) has a numeric
\* overallScore, four numeric subscores and at least one caseStudies entry.
C5_ReportShape ==
    \A r \in Req :
        req[r].kind \in AnalyzeKinds =>
            \A i \in 1..Len(req[r].sent) :
                req[r].sent[i].status = 200 =>
                    /\ IsNum(req[r].sent[i].body.overallScore)
                    /\ IsNumScores(req[r].sent[i].body.scores)
                    /\ Len(req[r].sent[i].body.caseStudies) >= 1

\* C6: once a request has finished, with a success or with an error, none
\* of the screenshot files written for it is still on the local disk.
C6_NoFileLeft ==
    \A r \in Req :
        Finished(req[r]) =>
            \A i \in 1..Len(req[r].made) : req[r].made[i] \notin disk

\* The static defaults of spec 4.3, by variant.
DefaultOverall(kind) == IF kind = "A21" THEN Num(72) ELSE Num(75)
DefaultScores(kind) ==
    IF kind = "A21" THEN ScoresOf(72, 70, 68, 75) ELSE ScoresOf(75, 72, 70, 78)

\* new URL(link.href) throws while the 2.1 case-study entries are assembled.
AssemblyThrows(s) ==
    s.kind = "A21" /\ \E i \in 1..Len(s.links) : URLThrows(s.links[i].href)

C8_ThrowClosesBrowser ==
    \A r \in Req :
        (Finished(req[r]) /\ req[r].threw) =>
            /\ req[r].open = 0 \/ req[r].browser
            /\ Len(req[r].sent) = 1
            /\ req[r].sent[1].status = 500 \/ req[r].timer = "fired"

\* The screenshot addresses a body carries.
UrlsIn(b) ==
    {b.screenshot_url}
        \cup {b.caseStudies[i].screenshots.desktopFull : i \in 1..Len(b.caseStudies)}
        \cup {b.caseStudies[i].screenshots.mobileFull : i \in 1..Len(b.caseStudies)}

\* C9: a request one of whose uploads failed (an error returned, or a
\* throw) still ends with its 200 answer, and that answer carries no public
\* address of the object that was not stored.
C9_UploadFailureTolerated ==
    \A r \in Req :
        (Finished(req[r]) /\ req[r].failed # {}) =>
            /\ Len(req[r].sent) = 1
            /\ req[r].sent[1].status = 200
            /\ \A f \in req[r].failed :
                   PublicUrl(f) \notin UrlsIn(req[r].sent[1].body)

\* C10: no two captures, of one request or of two, are given the same file
\* and object name.
C10_UniqueNames ==
    \A r1, r2 \in Req :
        \A i \in 1..Len(req[r1].made), j \in 1..Len(req[r2].made) :
            (r1 # r2 \/ i # j) => req[r1].made[i] # req[r2].made[j]

\* C11: every report the 2.3 handler answers with, built by the pipeline or
\* sent by the timer, defines the same fields as the timer's default report:
\* in data, in the caseStudies entry and in its section.
C11_SameShape ==
    \A r \in Req :
        req[r].kind = "A23" =>
            \A i \in 1..Len(req[r].sent) :
                req[r].sent[i].body.type = "report" =>
                    req[r].sent[i].body.keys = DefaultReport23.keys

ReadinessEnum ==
    {"Ready for interviews", "Almost ready", "Needs more work",
     "Significant improvements needed"}

\* C12: the interviewReadiness of every report sent by /analyze in 2.1, 2.2
\* and 2.3 is one of the four documented values.
C12_ReadinessEnum ==
    \A r \in Req :
        req[r].kind \in {"A21", "A22", "A23"} =>
            \A i \in 1..Len(req[r].sent) :
                req[r].sent[i].body.type = "report" =>
                    req[r].sent[i].body.interviewReadiness \in ReadinessEnum

Selected(s) == {s.links[i] : i \in 1..Len(s.links)}
CapOf(kind) == IF kind = "A22" THEN Cap22 ELSE IF kind = "A21" THEN Cap21 ELSE Cap1
LinkKinds == {"A21", "A22", "A1"}

\* A keyword of kws occurs in str.
Contains(str, kws) == \E i \in 1..Len(str) : Has(str[i]) \cap kws # {}
LowerCased(l) == [i \in 1..Len(l.href) + 1 + Len(l.text) |->
                    IF i <= Len(l.href) THEN Lower(l.href[i])
                    ELSE IF i = Len(l.href) + 1 THEN " "
                    ELSE Lower(l.text[i - Len(l.href) - 1])]

\* The rule the claim gives: href and anchor text together, in lower case,
\* hold one of the four keywords.
CandidateFour(l) == Contains(LowerCased(l), {"case", "work", "project", "portfolio"})

\* The rule with three keywords: in 2.1 and 2.2 over href and text in lower
\* case of a link that has both, in the early variant over the href as written.
CandidateThree(kind, l) ==
    IF kind = "A1"
    THEN Contains(l.href, {"case", "work", "project"})
    ELSE /\ l.href # <<>> /\ l.text # <<>>
         /\ Contains(LowerCased(l), {"case", "work", "project"})

\* C13 as stated: after the links were extracted, the selected links are
\* candidates by the four-keyword rule, and while the cap is not reached every
\* anchor that is a candidate by that rule is selected.
C13_FourKeywords ==
    \A r \in Req :
        (req[r].kind \in LinkKinds /\ req[r].anchors # <<>>) =>
            /\ \A l \in Selected(req[r]) : CandidateFour(l)
            /\ Len(req[r].links) < CapOf(req[r].kind) =>
                   \A k \in 1..Len(req[r].anchors) :
                       CandidateFour(req[r].anchors[k]) =>
                           req[r].anchors[k] \in Selected(req[r])

\* C13 amended: the same with the three keywords case, work and project (a
\* link with "portfolio" alone is not selected), over links with href and
\* text in 2.1 and 2.2 and over the href as written in the early variant.
C13_ThreeKeywords ==
    \A r \in Req :
        (req[r].kind \in LinkKinds /\ req[r].anchors # <<>>) =>
            /\ \A l \in Selected(req[r]) : CandidateThree(req[r].kind, l)
            /\ Len(req[r].links) < CapOf(req[r].kind) =>
                   \A k \in 1..Len(req[r].anchors) :
                       CandidateThree(req[r].kind, req[r].anchors[k]) =>
                           req[r].anchors[k] \in Selected(req[r])

\* The claim's two links on one page of a 2.1 request: the case-study link is
\* selected, the about link is not.
C13_Witness ==
    \E r \in Req :
        /\ req[r].kind = "A21"
        /\ Link(<<"https://x.com/", "case", "-study-1">>, <<"View ", "project">>)
               \in Selected(req[r])
        /\ \E k \in 1..Len(req[r].anchors) :
               /\ req[r].anchors[k] = Link(<<"https://x.com/", "about">>, <<"About us">>)
               /\ req[r].anchors[k] \notin Selected(req[r])
        /\ Len(req[r].links) < Cap21

\* The place of a link among the anchors of the page, 0 when it is not there.
Pos(s, l) ==
    IF \E k \in 1..Len(s.anchors) : s.anchors[k] = l
    THEN CHOOSE k \in 1..Len(s.anchors) : s.anchors[k] = l
    ELSE 0
Matching(s) == {k \in 1..Len(s.anchors) : CandidateThree(s.kind, s.anchors[k])}

\* C14: the selected links are the first N matching anchors in document
\* order (N = 3 in 2.1 and the early variant, 2 in 2.2): at most N, each an
\* anchor of the page, in the page's order, none selected while an earlier
\* matching anchor is left out, and N of them when the page has N or more.
C14_FirstN ==
    \A r \in Req :
        (req[r].kind \in LinkKinds /\ req[r].anchors # <<>>) =>
            LET s == req[r]
                N == IF s.kind = "A22" THEN 2 ELSE 3
            IN  /\ Len(s.links) <= N
                /\ \A i \in 1..Len(s.links) : Pos(s, s.links[i]) \in Matching(s)
                /\ \A i, j \in 1..Len(s.links) :
                       i < j => Pos(s, s.links[i]) < Pos(s, s.links[j])
                /\ \A i \in 1..Len(s.links) : \A k \in Matching(s) :
                       k < Pos(s, s.links[i]) => s.anchors[k] \in Selected(s)
                /\ Cardinality(Matching(s)) >= N => Len(s.links) = N

\* A page with more matching anchors than the cap, and a non-matching anchor
\* between two selected ones, in 2.2 and in 2.1 or the early variant.
C14_Witness ==
    \E r \in Req :
        LET s == req[r]
        IN  /\ s.kind \in LinkKinds
            /\ Cardinality(Matching(s)) > Len(s.links)
            /\ Len(s.links) >= 2
            /\ Pos(s, s.links[2]) > Pos(s, s.links[1]) + 1

\* The page loaded, two case-study links were selected, every capture the
\* handler started was stored, and the scorer's answer had overallScore 82.
FullRun(s) ==
    /\ s.loadSuccess /\ Len(s.links) = 2
    /\ s.failed = {}
    /\ s.kind = "A22" => /\ Len(s.made) = 3
                         /\ \A i \in 1..3 : s.made[i] \in bucket
    /\ s.scoring = "parsed" /\ s.ai.overallScore = Num(82)

\* C15: the report of a 2.1 or 2.2 /analyze request whose page loaded, with
\* two case-study links, every capture and upload done and the scorer's
\* overallScore 82, has overallScore 82 and two caseStudies entries, each
\* with a screenshot URL.
C15_FullScenario ==
    \A r \in Req :
        (req[r].kind \in {"A21", "A22"} /\ FullRun(req[r])) =>
            \A i \in 1..Len(req[r].sent) :
                req[r].sent[i].status = 200 =>
                    LET b == req[r].sent[i].body
                    IN  /\ b.overallScore = Num(82)
                        /\ Len(b.caseStudies) = 2
                        /\ \A k \in 1..Len(b.caseStudies) :
                               b.caseStudies[k].screenshots.desktopFull # NullUrl

\* Every page.goto of the portfolio URL the request made has failed.
AllLoadsFailed(s) ==
    /\ s.loads # <<>>
    /\ \A i \in 1..Len(s.loads) : ~s.loads[i].ok

\* C16: when every load of the URL failed, the report of a 2.1, 2.2 or 2.3
\* /analyze request has success true and exactly one caseStudies entry, with
\* title "Portfolio Homepage", the three screenshots null and the variant's
\* default score.
C16_LoadTimeout ==
    \A r \in Req :
        (req[r].kind \in {"A21", "A22", "A23"} /\ AllLoadsFailed(req[r])) =>
            \A i \in 1..Len(req[r].sent) :
                req[r].sent[i].status = 200 =>
                    LET b == req[r].sent[i].body
                    IN  /\ b.success = "true"
                        /\ Len(b.caseStudies) = 1
                        /\ b.caseStudies[1].title = <<"Portfolio Homepage">>
                        /\ b.caseStudies[1].screenshots = Shots(NullUrl)
                        /\ b.caseStudies[1].score = DefaultOverall(req[r].kind)

\* The pipeline state a handler position belongs to, by its place in the
\* order INIT, LOADING, EXTRACTING, CAPTURING, (browser.close), SCORING,
\* ASSEMBLED.  A case-study page is visited by the capture step.
Rank(pc) ==
    CASE pc \in {"absent", "idle", "launch", "newPage"} -> 0
      [] pc \in {"goto", "goto2"} -> 1
      [] pc = "extract" -> 2
      [] pc \in {"shot", "read", "upload", "h_shot", "h_read", "h_upload",
                 "cs_goto", "cs_shot", "cs_read", "cs_upload"} -> 3
      [] pc = "close" -> 4
      [] pc \in {"fetch", "body"} -> 5
      [] pc \in {"build", "c_close", "done"} -> 6

C18_AbortCoversBody ==
    \A r \in Req :
        (req[r].kind \in {"A21", "A22", "A23"} /\ req[r].pc \in {"fetch", "body"}) =>
            req[r].abortTimer = "armed"

\* C19: the step in which the last load of the URL fails does not throw and
\* does not end the handler; and a handler that has returned after failed
\* loads, no later step having thrown, has kept content empty, has called the
\* scorer with the placeholder text and has answered with a success report.
C19_LoadFailureContinues ==
    [][\A r \in Req :
          req'[r].kind \in AnalyzeKinds =>
              LET s == req[r]
                  t == req'[r]
              IN  /\ (Len(t.loads) > Len(s.loads) /\ AllLoadsFailed(t)) =>
                         (~t.threw /\ t.pc \notin {"c_close", "done"})
                  /\ (AllLoadsFailed(t) /\ t.pc = "done" /\ ~t.threw) =>
                         /\ t.content = "" /\ t.prompt = "placeholder"
                         /\ \E i \in 1..Len(t.sent) :
                                /\ t.sent[i].status = 200
                                /\ t.sent[i].body.success = "true"
      ]_vars

\* The load strategies of a handler, strongest first.
Chain(kind) ==
    IF kind = "A21" THEN <<"domcontentloaded", "commit">> ELSE <<"domcontentloaded">>

\* The page.goto calls made so far follow the chain c from its start, each
\* after the failure of the one before, the page counts as loaded exactly
\* when one succeeded, and the handler has gone on unloaded only after the
\* whole chain failed.
FollowsChain(s, c) ==
    /\ Len(s.loads) <= Len(c)
    /\ \A i \in 1..Len(s.loads) :
           /\ s.loads[i].waitUntil = c[i]
           /\ i < Len(s.loads) => ~s.loads[i].ok
    /\ s.loadSuccess <=> (\E i \in 1..Len(s.loads) : s.loads[i].ok)
    /\ (s.loads # <<>> /\ Rank(s.pc) > 1 /\ ~s.loadSuccess) => Len(s.loads) = Len(c)
    /\ s.prompt # "none" => s.loads # <<>>

\* C20 as stated: every 2.1, 2.2 and 2.3 handler follows the chain
\* network-idle, DOM-content-loaded, first-byte-committed.
C20_ThreeStrategies ==
    \A r \in Req :
        req[r].kind \in {"A21", "A22", "A23"} =>
            FollowsChain(req[r], <<"networkidle", "domcontentloaded", "commit">>)

\* C20 amended: 2.1 follows the chain DOM-content-loaded, first-byte-committed
\* and 2.2 and 2.3 the chain of DOM-content-loaded alone.
C20_VariantChain ==
    \A r \in Req :
        req[r].kind \in {"A21", "A22", "A23"} => FollowsChain(req[r], Chain(req[r].kind))

\* A 2.1 request whose first load failed and whose commit load succeeded.
C20_Witness ==
    \E r \in Req :
        /\ req[r].kind = "A21" /\ Len(req[r].loads) = 2
        /\ ~req[r].loads[1].ok /\ req[r].loads[2].ok
        /\ req[r].pc = "done" /\ ~req[r].threw

\* C21: when the scorer's answer parsed to an object with a numeric
\* overallScore and a scores object, the report the pipeline of 2.1, 2.2 or
\* 2.3 sends carries that overallScore and those scores unchanged, whatever
\* their values.
C21_PassThrough ==
    \A r \in Req :
        (/\ req[r].kind \in {"A21", "A22", "A23"}
         /\ req[r].scoring = "parsed"
         /\ IsNum(req[r].ai.overallScore) /\ IsNumScores(req[r].ai.scores)) =>
            \A i \in 1..Len(req[r].sent) :
                (req[r].sent[i].status = 200 /\ req[r].sent[i].body.src = "pipeline") =>
                    /\ req[r].sent[i].body.overallScore = req[r].ai.overallScore
                    /\ req[r].sent[i].body.scores = req[r].ai.scores

\* C22: a 2.1, 2.2 or 2.3 /analyze request calls the scoring endpoint at most
\* once: never without the API key, once when a call is pending or has
\* settled (answered, aborted, non-2xx or unparsable), and no step issues a
\* call after one was issued.
C22_OneAttempt ==
    [][\A r \in Req :
          req'[r].kind \in {"A21", "A22", "A23"} =>
              LET s == req[r]
                  t == req'[r]
              IN  /\ t.scorer <= 1
                  /\ ~apiKey => t.scorer = 0
                  /\ (t.pc \in {"fetch", "body"}
                      \/ t.scoring \in {"abort", "non2xx", "malformed", "parsed"}) =>
                         t.scorer = 1
                  /\ t.scorer # s.scorer =>
                         (s.scorer = 0 /\ s.scoring = "none" /\ t.pc = "fetch")
      ]_vars

\* A request whose one scoring call was aborted by its timer and which
\* answered with a report all the same.
C22_Witness ==
    \E r \in Req :
        /\ req[r].kind \in {"A21", "A22", "A23"}
        /\ req[r].scoring = "abort" /\ req[r].scorer = 1
        /\ req[r].pc = "done" /\ ~req[r].threw
        /\ Len(req[r].sent) = 1 /\ req[r].sent[1].body.src = "pipeline"

\* C23: in POST /review every audit row of a request, and every success
\* response with a screenshot_url, comes after an upload of that request's
\* screenshot that succeeded; an upload that returned an error leaves no row
\* and no such response.
C23_RowOnlyAfterUpload ==
    \A r \in Req :
        req[r].kind \in ReviewKinds =>
            /\ \A row \in rows : row.req = r => (row.status = "done" /\ row.uploaded)
            /\ \A i \in 1..Len(req[r].sent) :
                   (req[r].sent[i].status = 200 /\ req[r].sent[i].body.type = "review") =>
                       (req[r].uploaded /\ req[r].failed = {})

====
